---- MODULE Spec2Model ----
(***************************************************************************)
(* Model of src/hooks/useAnimatedSnapPoints.ts: the derived value          *)
(* normalizedSnapPoints, the shared value dynamicSnapPointIndex that the   *)
(* derivation writes, and the derived value hasDynamicSnapPoint.           *)
(*                                                                         *)
(* Every action changes one input of the hook and then runs both derived   *)
(* values, as the dependency tracking of useDerivedValue does.             *)
(*                                                                         *)
(* Representation.  An optional prop is a set: {} is `undefined`, {v} is   *)
(* the value v.  The snapPoints prop, when given, is a record whose field  *)
(* isShared tells whether it is a SharedValue ('value' in snapPoints) and  *)
(* whose field items is the array (snapPoints.value or snapPoints).  A raw *)
(* entry is [type |-> "number", v |-> n] for the literal n and             *)
(* [type |-> "string", v |-> p] for the string `${p}%`.  Arrays are        *)
(* sequences; an index of the program is 0-based, so the element at index  *)
(* i of an array a is a[i + 1].                                            *)
(***************************************************************************)
EXTENDS Integers, Sequences, FiniteSets, TLC

\* ------------------------------------------------------------------ bounds
\* longest raw snap point list handed over as a plain array
MaxLen == 2

\* longest raw snap point list handed over inside a SharedValue
MaxSharedLen == 1

\* ------------------------------------------------------- program constants
INITIAL_CONTAINER_HEIGHT == -999
INITIAL_HANDLE_HEIGHT == -999
INITIAL_SNAP_POINT == -999

\* ------------------------------------------------------------ input domains
undefined == {}

Some(v) == {v}

ValueOf(opt) == CHOOSE v \in opt : TRUE

Num(n) == [type |-> "number", v |-> n]

Pct(p) == [type |-> "string", v |-> p]

\* raw entries: 50, 150 and '50%'
Entries == {Num(50), Num(150), Pct(50)}

RawLists(max) == UNION {[1..n -> Entries] : n \in 0..max}

SnapPointsProps ==
    {undefined}
        \cup {Some([isShared |-> FALSE, items |-> l]) : l \in RawLists(MaxLen)}
        \cup {Some([isShared |-> TRUE, items |-> l]) : l \in RawLists(MaxSharedLen)}

\* multiples of 100, so that a percentage of the container is a whole number
ContainerHeights == {INITIAL_CONTAINER_HEIGHT, 100, 200}

ContentHeights == {INITIAL_CONTAINER_HEIGHT, 50, 100}

HandleHeights == {INITIAL_HANDLE_HEIGHT, 50}

FooterHeights == {0, 50}

MaxDynamicContentSizes == {undefined, Some(0), Some(250)}

\* ------------------------------------------------------------ array helpers
Min(a, b) == IF a <= b THEN a ELSE b

Max(a, b) == IF a >= b THEN a ELSE b

\* Array.prototype.includes
Includes(a, x) == \E i \in 1..Len(a) : a[i] = x

\* Array.prototype.indexOf: the first 0-based position of x, or -1
IndexOf(a, x) ==
    IF Includes(a, x)
    THEN (CHOOSE i \in 1..Len(a) : a[i] = x /\ \A j \in 1..(i - 1) : a[j] # x) - 1
    ELSE -1

\* Array.prototype.push
Push(a, x) == Append(a, x)

\* variant: the comparator with its operands swapped
compareFnMutantAscending(a, b) == a - b

\* the comparator handed to sort: (a, b) => b - a
compareFn(a, b) == b - a

\* variant: an insertion that drops an element equal to its neighbour
RECURSIVE InsertMutantDropsEqual(_, _)
InsertMutantDropsEqual(s, x) ==
    IF s = <<>> THEN <<x>>
    ELSE IF x = Head(s) THEN s
    ELSE IF compareFn(x, Head(s)) < 0 THEN <<x>> \o s
    ELSE <<Head(s)>> \o InsertMutantDropsEqual(Tail(s), x)

\* stable insertion of x into the sorted array s: x goes before the first
\* element e with compareFn(x, e) < 0
RECURSIVE Insert(_, _)
Insert(s, x) ==
    IF s = <<>> THEN <<x>>
    ELSE IF compareFn(x, Head(s)) < 0 THEN <<x>> \o s
    ELSE <<Head(s)>> \o Insert(Tail(s), x)

\* Array.prototype.sort((a, b) => b - a)
RECURSIVE Sort(_)
Sort(a) ==
    IF a = <<>> THEN <<>>
    ELSE Insert(Sort(SubSeq(a, 1, Len(a) - 1)), a[Len(a)])

\* ------------------------------------------------------------- the program
\* utilities.normalizeSnapPoint: a percentage string becomes that share of
\* the container height, and the result is the offset from the container's
\* top, never negative.  containerHeight is a multiple of 100 here, so the
\* division is exact.
normalizeSnapPoint(snapPoint, h) ==
    LET size == IF snapPoint.type = "string"
                THEN (snapPoint.v * h) \div 100
                ELSE snapPoint.v
    IN  Max(0, h - size)

\* const dynamicSnapPointIndex = useSharedValue<number>(-1)
InitialDynamicSnapPointIndex == -1

\* variant: the container check left out
isContainerLayoutReadyMutantAlways(h) == TRUE

\* containerHeight.value !== INITIAL_CONTAINER_HEIGHT
isContainerLayoutReady(h) == h # INITIAL_CONTAINER_HEIGHT

\* handleHeight.value === INITIAL_HANDLE_HEIGHT
isHandleHeightInitial(h) == h = INITIAL_HANDLE_HEIGHT

\* variant: the content height compared with 0
isContentHeightInitialMutantZero(h) == h = 0

\* contentHeight.value === INITIAL_CONTAINER_HEIGHT
isContentHeightInitial(h) == h = INITIAL_CONTAINER_HEIGHT

\* snapPoints ? ('value' in snapPoints ? snapPoints.value : snapPoints) : []
extractSnapPoints(sp) ==
    IF sp # undefined
    THEN (IF ValueOf(sp).isShared THEN ValueOf(sp).items ELSE ValueOf(sp).items)
    ELSE <<>>

\* _snapPoints.map(snapPoint => normalizeSnapPoint(snapPoint, containerHeight.value))
\* variant: the converted list sorted before the branches
normalizeAllMutantSorted(sp, h) ==
    LET _snapPoints == extractSnapPoints(sp)
    IN  Sort([i \in 1..Len(_snapPoints) |-> normalizeSnapPoint(_snapPoints[i], h)])

normalizeAll(sp, h) ==
    LET _snapPoints == extractSnapPoints(sp)
    IN  [i \in 1..Len(_snapPoints) |-> normalizeSnapPoint(_snapPoints[i], h)]

\* variant: the cap tested for truthiness, so that 0 counts as absent
dynamicSnapPointMutantTruthyCap(container, content, handle, footer, mdcs) ==
    container -
        Min(content + handle + footer,
            IF mdcs # undefined /\ ValueOf(mdcs) # 0 THEN ValueOf(mdcs) ELSE container)

\* containerHeight - Math.min(content + handle + footer,
\*     maxDynamicContentSize !== undefined ? maxDynamicContentSize : containerHeight)
dynamicSnapPoint(container, content, handle, footer, mdcs) ==
    container -
        Min(content + handle + footer,
            IF mdcs # undefined THEN ValueOf(mdcs) ELSE container)

\* variant: the dynamic point pushed without the includes test
pushAndSortMutantAlwaysPush(list, d) == Sort(Push(list, d))

\* if (!list.includes(d)) list.push(d); list = list.sort((a, b) => b - a)
pushAndSort(list, d) ==
    Sort(IF ~Includes(list, d) THEN Push(list, d) ELSE list)

\* the messages forwarded to onLog, one per branch
LogContainerNotReady == "container layout not ready"

LogNoDynamicSizing == "no dynamic sizing, returning normalized"

LogHandleNotReady == "handle height not ready, returning initial snap point"

LogContentNotReady == "content height not ready, returning initial snap point"

LogDynamic == "dynamic snap point"

\* variant: an early return that writes the index
sentinelReturnMutantWritesIndex(index, log) ==
    [value |-> <<INITIAL_SNAP_POINT>>, index |-> 0, log |-> log]

\* return [INITIAL_SNAP_POINT], with dynamicSnapPointIndex left as it is
sentinelReturn(index, log) ==
    [value |-> <<INITIAL_SNAP_POINT>>, index |-> index, log |-> log]

\* One run of the worklet of normalizedSnapPoints.  index is the value of
\* dynamicSnapPointIndex before the run.  The result holds the returned array,
\* the value of dynamicSnapPointIndex after the run and the message logged.
normalizedSnapPointsFn(sp, container, content, handle, footer, eds, mdcs, index) ==
    IF ~isContainerLayoutReady(container)
    THEN sentinelReturn(index, LogContainerNotReady)
    ELSE LET _normalizedSnapPoints == normalizeAll(sp, container) IN
    IF ~eds
    THEN [value |-> _normalizedSnapPoints, index |-> index, log |-> LogNoDynamicSizing]
    ELSE IF isHandleHeightInitial(handle)
    THEN sentinelReturn(index, LogHandleNotReady)
    ELSE IF isContentHeightInitial(content)
    THEN sentinelReturn(index, LogContentNotReady)
    ELSE LET d == dynamicSnapPoint(container, content, handle, footer, mdcs)
             sorted == pushAndSort(_normalizedSnapPoints, d)
         IN  [value |-> sorted, index |-> IndexOf(sorted, d), log |-> LogDynamic]

\* typeof snapPoint === 'string'
isString(snapPoint) == snapPoint.type = "string"

\* _snapPoints.find(snapPoint => typeof snapPoint === 'string'): the first
\* entry that is a string, or `undefined`
findString(a) ==
    IF \E i \in 1..Len(a) : isString(a[i])
    THEN Some(a[CHOOSE i \in 1..Len(a) :
                    isString(a[i]) /\ \A j \in 1..(i - 1) : ~isString(a[j])])
    ELSE undefined

\* the truthiness of what find returned: `undefined` is falsy, and a found
\* entry is the string `${p}%`, which is not empty and so truthy
isTruthy(found) == found # undefined

\* the worklet of hasDynamicSnapPoint
\* variant: only the dynamic-sizing flag looked at
hasDynamicSnapPointFnMutantFlagOnly(sp, eds) == eds

hasDynamicSnapPointFn(sp, eds) ==
    IF eds THEN TRUE
    ELSE LET _snapPoints == extractSnapPoints(sp) IN
         IF Len(_snapPoints) # 0 /\ isTruthy(findString(_snapPoints))
         THEN TRUE
         ELSE FALSE

\* ------------------------------------------------------------------- state
VARIABLES
    snapPoints,             \* prop: the raw list, optional
    containerHeight,        \* SharedValue<number>
    contentHeight,          \* SharedValue<number>
    handleHeight,           \* SharedValue<number>
    footerHeight,           \* SharedValue<number>
    enableDynamicSizing,    \* prop
    maxDynamicContentSize,  \* prop, optional
    normalizedSnapPoints,   \* derived value
    dynamicSnapPointIndex,  \* shared value written by the derivation
    hasDynamicSnapPoint,    \* derived value
    lastLog,                \* the message of the latest run
    dynamicLogged           \* history: some run so far took the dynamic branch

vars == <<snapPoints, containerHeight, contentHeight, handleHeight, footerHeight,
          enableDynamicSizing, maxDynamicContentSize, normalizedSnapPoints,
          dynamicSnapPointIndex, hasDynamicSnapPoint, lastLog, dynamicLogged>>

\* The inputs take the values sp .. mdcs; both derived values run.
Recompute(sp, container, content, handle, footer, eds, mdcs, index, logged) ==
    LET r == normalizedSnapPointsFn(sp, container, content, handle, footer,
                                    eds, mdcs, index)
    IN  /\ snapPoints' = sp
        /\ containerHeight' = container
        /\ contentHeight' = content
        /\ handleHeight' = handle
        /\ footerHeight' = footer
        /\ enableDynamicSizing' = eds
        /\ maxDynamicContentSize' = mdcs
        /\ normalizedSnapPoints' = r.value
        /\ dynamicSnapPointIndex' = r.index
        /\ hasDynamicSnapPoint' = hasDynamicSnapPointFn(sp, eds)
        /\ lastLog' = r.log
        /\ dynamicLogged' = (logged \/ r.log = LogDynamic)

\* the hook's first render: any inputs, index -1, both derived values run once
Init ==
    \E sp \in SnapPointsProps, container \in ContainerHeights,
       content \in ContentHeights, handle \in HandleHeights,
       footer \in FooterHeights, eds \in BOOLEAN, mdcs \in MaxDynamicContentSizes :
        LET r == normalizedSnapPointsFn(sp, container, content, handle, footer,
                                        eds, mdcs, InitialDynamicSnapPointIndex)
        IN  /\ snapPoints = sp
            /\ containerHeight = container
            /\ contentHeight = content
            /\ handleHeight = handle
            /\ footerHeight = footer
            /\ enableDynamicSizing = eds
            /\ maxDynamicContentSize = mdcs
            /\ normalizedSnapPoints = r.value
            /\ dynamicSnapPointIndex = r.index
            /\ hasDynamicSnapPoint = hasDynamicSnapPointFn(sp, eds)
            /\ lastLog = r.log
            /\ dynamicLogged = (r.log = LogDynamic)

SetSnapPoints ==
    \E sp \in SnapPointsProps \ {snapPoints} :
        Recompute(sp, containerHeight, contentHeight, handleHeight, footerHeight,
                  enableDynamicSizing, maxDynamicContentSize,
                  dynamicSnapPointIndex, dynamicLogged)

SetContainerHeight ==
    \E h \in ContainerHeights \ {containerHeight} :
        Recompute(snapPoints, h, contentHeight, handleHeight, footerHeight,
                  enableDynamicSizing, maxDynamicContentSize,
                  dynamicSnapPointIndex, dynamicLogged)

SetContentHeight ==
    \E h \in ContentHeights \ {contentHeight} :
        Recompute(snapPoints, containerHeight, h, handleHeight, footerHeight,
                  enableDynamicSizing, maxDynamicContentSize,
                  dynamicSnapPointIndex, dynamicLogged)

SetHandleHeight ==
    \E h \in HandleHeights \ {handleHeight} :
        Recompute(snapPoints, containerHeight, contentHeight, h, footerHeight,
                  enableDynamicSizing, maxDynamicContentSize,
                  dynamicSnapPointIndex, dynamicLogged)

SetFooterHeight ==
    \E h \in FooterHeights \ {footerHeight} :
        Recompute(snapPoints, containerHeight, contentHeight, handleHeight, h,
                  enableDynamicSizing, maxDynamicContentSize,
                  dynamicSnapPointIndex, dynamicLogged)

SetEnableDynamicSizing ==
    Recompute(snapPoints, containerHeight, contentHeight, handleHeight, footerHeight,
              ~enableDynamicSizing, maxDynamicContentSize,
              dynamicSnapPointIndex, dynamicLogged)

SetMaxDynamicContentSize ==
    \E m \in MaxDynamicContentSizes \ {maxDynamicContentSize} :
        Recompute(snapPoints, containerHeight, contentHeight, handleHeight, footerHeight,
                  enableDynamicSizing, m,
                  dynamicSnapPointIndex, dynamicLogged)

Next ==
    \/ SetSnapPoints
    \/ SetContainerHeight
    \/ SetContentHeight
    \/ SetHandleHeight
    \/ SetFooterHeight
    \/ SetEnableDynamicSizing
    \/ SetMaxDynamicContentSize

Spec == Init /\ [][Next]_vars

\* ------------------------------------------------------------- properties
IsSortedDescending(a) == \A i \in 1..(Len(a) - 1) : a[i] >= a[i + 1]

Count(a, x) == Cardinality({i \in 1..Len(a) : a[i] = x})

Elements(a) == {a[i] : i \in 1..Len(a)}

\* the raw list of the current state, [] when the prop is absent
RawList == IF snapPoints = undefined THEN <<>> ELSE ValueOf(snapPoints).items

\* the raw list of the current state, entry by entry in pixels
RawPixels == [i \in 1..Len(RawList) |-> normalizeSnapPoint(RawList[i], containerHeight)]

ContainerKnown == containerHeight # INITIAL_CONTAINER_HEIGHT

HandleKnown == handleHeight # INITIAL_HANDLE_HEIGHT

ContentKnown == contentHeight # INITIAL_CONTAINER_HEIGHT

\* dynamic sizing on, and container, handle and content all measured
AllReady == enableDynamicSizing /\ ContainerKnown /\ HandleKnown /\ ContentKnown

\* the cap of the dynamic point: the given size, else the container height
Cap == IF maxDynamicContentSize = {} THEN containerHeight ELSE ValueOf(maxDynamicContentSize)

\* the dynamic point of the current heights and cap
ExpectedDynamicPoint ==
    LET content == contentHeight + handleHeight + footerHeight
    IN  containerHeight - (IF content <= Cap THEN content ELSE Cap)

\* C1 as stated: in every reachable state the normalized sequence is sorted
\* in descending order.
C1_AlwaysSortedDescending == IsSortedDescending(normalizedSnapPoints)

\* C1 amended: the normalized sequence is sorted in descending order in every
\* reachable state in which dynamic sizing is on, or the container height is
\* unset, or the raw list converts to pixels in descending order.
C1_SortedUnlessRawOrderKept ==
    (enableDynamicSizing \/ ~ContainerKnown \/ IsSortedDescending(RawPixels))
        => IsSortedDescending(normalizedSnapPoints)

\* the dynamic branch sorted a list that was not in descending order
C1_Witness ==
    /\ AllReady
    /\ Len(RawList) >= 2
    /\ ~IsSortedDescending(RawPixels)
    /\ Len(normalizedSnapPoints) = Len(RawList) + 1

\* C2: whenever the dynamic snap point index is >= 0 it is a position of the
\* current normalized sequence, and the element there is the dynamic point of
\* the current heights and cap.
C2_IndexPointsAtDynamicPoint ==
    dynamicSnapPointIndex >= 0
        => /\ dynamicSnapPointIndex < Len(normalizedSnapPoints)
           /\ normalizedSnapPoints[dynamicSnapPointIndex + 1] = ExpectedDynamicPoint

\* C3 as stated: with dynamic sizing on and all measurements known, the
\* normalized sequence holds the dynamic point exactly once and is sorted
\* descending.
C3_DynamicPointExactlyOnce ==
    AllReady
        => /\ Count(normalizedSnapPoints, ExpectedDynamicPoint) = 1
           /\ IsSortedDescending(normalizedSnapPoints)

\* C3 amended: with dynamic sizing on and all measurements known, the
\* normalized sequence is sorted descending and holds the dynamic point once
\* when the converted raw list holds it at most once, and otherwise as often
\* as the converted raw list holds it.
C3_DynamicPointOnceUnlessRawRepeatsIt ==
    AllReady
        => /\ Count(normalizedSnapPoints, ExpectedDynamicPoint)
                = Max(1, Count(RawPixels, ExpectedDynamicPoint))
           /\ IsSortedDescending(normalizedSnapPoints)

\* the raw list already holds the dynamic point, once, next to another entry
C3_Witness ==
    /\ AllReady
    /\ Count(RawPixels, ExpectedDynamicPoint) = 1
    /\ Len(RawList) = 2
    /\ Count(normalizedSnapPoints, ExpectedDynamicPoint) = 1

\* C4: whenever the container height has its initial value, the normalized
\* sequence is the one-element list of the sentinel snap point.
C4_ContainerUnsetGivesSentinel ==
    containerHeight = INITIAL_CONTAINER_HEIGHT
        => normalizedSnapPoints = <<INITIAL_SNAP_POINT>>

\* the container height went back to its initial value after a dynamic point
\* had been computed, with everything else known
C4_Witness ==
    /\ containerHeight = INITIAL_CONTAINER_HEIGHT
    /\ enableDynamicSizing /\ HandleKnown /\ ContentKnown
    /\ Len(RawList) >= 1
    /\ maxDynamicContentSize # undefined
    /\ dynamicLogged
    /\ normalizedSnapPoints = <<INITIAL_SNAP_POINT>>

\* C5: whenever dynamic sizing is off and the container height is known, the
\* normalized sequence is the raw list converted entry by entry to pixels, in
\* the raw list's order and length; an absent raw list gives the empty sequence.
C5_DynamicOffKeepsRawOrder ==
    (~enableDynamicSizing /\ ContainerKnown)
        => /\ normalizedSnapPoints = RawPixels
           /\ (snapPoints = undefined => normalizedSnapPoints = <<>>)

\* dynamic sizing is off and the result is a list that is not sorted
C5_Witness ==
    /\ ~enableDynamicSizing /\ ContainerKnown
    /\ HandleKnown /\ ContentKnown
    /\ Len(normalizedSnapPoints) = 2
    /\ normalizedSnapPoints[1] < normalizedSnapPoints[2]

\* C6: the has-dynamic-snap-point flag is true exactly when dynamic sizing is
\* on or some entry of the raw list is a percentage string.
C6_HasDynamicIffFlagOrPercentage ==
    hasDynamicSnapPoint
        <=> (enableDynamicSizing \/ \E i \in 1..Len(RawList) : RawList[i].type = "string")

\* dynamic sizing is off and a percentage entry, behind a literal one, sets
\* the flag
C6_Witness ==
    /\ ~enableDynamicSizing
    /\ Len(RawList) = 2
    /\ RawList[1].type = "number"
    /\ RawList[2].type = "string"
    /\ hasDynamicSnapPoint

\* C7: as long as no recomputation has taken the dynamic branch, the dynamic
\* snap point index is -1.
C7_IndexMinusOneBeforeDynamicBranch ==
    ~dynamicLogged => dynamicSnapPointIndex = -1

\* the content-not-ready branch ran, and no run has taken the dynamic branch
C7_Witness ==
    /\ ~dynamicLogged
    /\ lastLog = LogContentNotReady
    /\ dynamicSnapPointIndex = -1

\* C8: with dynamic sizing on and all measurements known, the element at the
\* dynamic snap point index is containerHeight - min(contentHeight +
\* handleHeight + footerHeight, cap), where cap is the max-dynamic-content size
\* if one is given (0 included) and containerHeight otherwise; with no cap
\* given it is not negative.
C8_DynamicPointValue ==
    AllReady
        => /\ dynamicSnapPointIndex \in 0..(Len(normalizedSnapPoints) - 1)
           /\ normalizedSnapPoints[dynamicSnapPointIndex + 1] = ExpectedDynamicPoint
           /\ (maxDynamicContentSize = undefined
                 => normalizedSnapPoints[dynamicSnapPointIndex + 1] >= 0)

\* a cap of 0 is given: the dynamic point is the container height
C8_Witness ==
    /\ AllReady
    /\ maxDynamicContentSize = Some(0)
    /\ normalizedSnapPoints[dynamicSnapPointIndex + 1] = containerHeight

\* C9: with dynamic sizing on and the container height known, while the
\* handle height or the content height has its initial value the normalized
\* sequence is the one-element sentinel list.
C9_UnmeasuredGivesSentinel ==
    (enableDynamicSizing /\ ContainerKnown /\ (~HandleKnown \/ ~ContentKnown))
        => normalizedSnapPoints = <<INITIAL_SNAP_POINT>>

\* the content height went back to its initial value after a dynamic point
\* had been computed
C9_Witness ==
    /\ enableDynamicSizing /\ ContainerKnown /\ HandleKnown /\ ~ContentKnown
    /\ dynamicLogged
    /\ dynamicSnapPointIndex >= 0
    /\ Len(RawList) >= 1
    /\ normalizedSnapPoints = <<INITIAL_SNAP_POINT>>

\* C10, the result: with dynamic sizing on and all measurements known, the
\* normalized sequence holds every converted raw entry as often as the raw
\* list does, plus the dynamic point once when no converted raw entry equals
\* it; its length is the raw list's or one more, and it is not empty.
C10_Permutation ==
    AllReady
        => /\ \A x \in Elements(normalizedSnapPoints) \cup Elements(RawPixels)
                        \cup {ExpectedDynamicPoint} :
                 Count(normalizedSnapPoints, x)
                     = Count(RawPixels, x)
                         + (IF x = ExpectedDynamicPoint /\ Count(RawPixels, x) = 0
                            THEN 1 ELSE 0)
           /\ Len(normalizedSnapPoints) \in {Len(RawList), Len(RawList) + 1}
           /\ Len(normalizedSnapPoints) >= 1

\* C10, the raw list: a recomputation that a height, the dynamic-sizing flag
\* or the cap sets off leaves the raw list as it was.
C10_RawListKept ==
    (\/ containerHeight' # containerHeight
     \/ contentHeight' # contentHeight
     \/ handleHeight' # handleHeight
     \/ footerHeight' # footerHeight
     \/ enableDynamicSizing' # enableDynamicSizing
     \/ maxDynamicContentSize' # maxDynamicContentSize)
        => snapPoints' = snapPoints

\* C10: with dynamic sizing on and all measurements known, the normalized
\* sequence is a permutation of the converted raw entries plus at most one
\* element, the dynamic point, added only when no converted raw entry equals
\* it; and the recomputation leaves the raw list unchanged.
C10_PermutationPlusDynamicPoint == []C10_Permutation /\ [][C10_RawListKept]_vars

\* the raw list holds an entry twice and not the dynamic point, which is added
C10_Witness ==
    /\ AllReady
    /\ Len(RawList) = 2
    /\ RawPixels[1] = RawPixels[2]
    /\ Count(RawPixels, ExpectedDynamicPoint) = 0
    /\ Len(normalizedSnapPoints) = 3

====
